---- MODULE Spec2Model ----
(***************************************************************************)
(* A model of Exscript's protocol base class, Exscript/protocols/          *)
(* Transport.py: the authentication state machine (login, authenticate,    *)
(* app_authenticate, app_authorize, auto_app_authorize), the prompt race   *)
(* of _app_authenticate, the driver resolution of _receive_cb and the      *)
(* waitfor/expect wrappers around the match primitive _domatch.            *)
(*                                                                         *)
(* The receive buffer holds tokens, not bytes: "u" a username prompt, "p"  *)
(* a password prompt, ">" and "#" two styles of CLI prompt, "f" a login    *)
(* error text, "k" the head of a one-time-password challenge ("s/key 99 ") *)
(* and "s" one non-blank character of its seed, "n" a line break, "x" any  *)
(* other text.  A regular expression is a pattern record: a literal token  *)
(* sequence that may occur anywhere in the buffer (re.search), or the      *)
(* s/key expression of Transport.py:33.                                    *)
(*                                                                         *)
(* Python's call stack is the variable stack, a sequence of frames; the    *)
(* value or exception a finished call hands to its caller is ret.  An      *)
(* action is one run of the code between two calls that may block.         *)
(***************************************************************************)
EXTENDS Integers, Sequences, FiniteSets, TLC

VARIABLES
    buffer,            \* the receive buffer of the match engine
    response,          \* Transport.response
    authenticated,     \* Transport.authenticated
    app_authenticated, \* Transport.app_authenticated
    app_authorized,    \* Transport.app_authorized
    last_account,      \* Transport.last_account
    manual_driver,     \* Transport.manual_driver
    auto_driver,       \* Transport.auto_driver
    manual_re,         \* the five manual_*_re overrides, by category
    driver_replaced,   \* Transport.driver_replaced
    cancel,            \* the match engine's cancellation flag
    eof,               \* the transport has reached end of stream
    stack,             \* the call stack
    ret,               \* what the last finished call returned or raised
    wire,              \* output of a scripted device not yet received
    device,            \* the kind of remote device and its progress
    sent,              \* history: everything handed to send(), in order
    log,               \* history: the steps login() has started
    cur,               \* history: the public call in progress
    done,              \* history: the public calls before it, in order
    snap,              \* history: the last wait aborted by a driver change
    ncalls,            \* number of public calls made so far
    nrecv              \* number of tokens received so far

vars == <<buffer, response, authenticated, app_authenticated, app_authorized,
          last_account, manual_driver, auto_driver, manual_re,
          driver_replaced, cancel, eof, stack, ret, wire, device, sent, log, cur,
          done, snap, ncalls, nrecv>>

-----------------------------------------------------------------------------
(* Bounds of the model. *)

\* Tokens a free device may send in one session.
MaxData == 3
\* Public calls of any kind the caller makes in one session.
MaxCalls == 1
\* Calls of the wait operations the caller makes in one session.
MaxWaitCalls == 2
\* Calls the caller makes to a scripted device: login, then waits.
MaxDeviceCalls == 3
\* Tokens of filler a scripted device puts in front of its first prompt.
MaxBanner == 1

\* The number of steps of the application level a caller makes itself.
MaxStepCalls == 2
\* Commands the caller executes on a device that is at its shell.
MaxExecuteCalls == 2

\* The number of calls in a session of calls that take an account.
MaxAccountCalls == 2

\* The number of calls in a session in which the driver is set.
MaxDriverCalls == 3

-----------------------------------------------------------------------------
(* Values. *)

None == "None"

\* An optional sequence (a list of patterns, a text): None, or a value.
NoneSeq == [isnone |-> TRUE, val |-> <<>>]

Some(v) == [isnone |-> FALSE, val |-> v]

\* Python's truth value of an optional list: None and [] are both false.
Truthy(x) == ~x.isnone /\ x.val # <<>>

\* Tokens a device can send.
Tokens == {"u", "p", ">", "#", "f", "k", "s", "n", "x"}

\* Tokens a free device sends: every token but the plain text "x" and the
\* line break, or, for
\* the device that the wait operations alone are called on, the prompts,
\* or, for the device the overrides are tried on, one CLI prompt.
DeviceTokens(dev) ==
    CASE dev = "free" -> Tokens \ {"x", "n"}
      [] dev \in {"bare", "pinned"} -> {">"}
      [] OTHER -> {"u", "p", ">"}

\* The sequence number the challenge head "k" carries, as the text matched.
SeqText == "99"

\* int() of a matched sequence number.
int(text) == IF text = "99" THEN 99 ELSE 0

Lit(toks) == [kind |-> "lit", toks |-> toks]

\* _skey_re: (?:s\/key|otp-md4) (\d+) (\S+)
_skey_re == [kind |-> "skey", toks |-> <<"k", "s">>]

\* Exscript.util.cast.to_regexs applied to one regular expression.
to_regexs(prompt) == <<prompt>>

\* Accounts: name, password, authorization password (password2) and key.
Account1 == [name |-> "n1", password |-> "pw1", password2 |-> None, key |-> None]
Account2 == [name |-> "n2", password |-> "pw2", password2 |-> "az2", key |-> "key2"]
Accounts == {Account1, Account2}

\* No account: the argument left out, or last_account never set.
NoAccount == [name |-> None, password |-> None, password2 |-> None, key |-> None]

\* The behaviour profiles.  "generic" knows no AAA: its auto_authorize does
\* nothing; "ios" sends "enable" and runs app_authorize.
Drivers == {"generic", "ios"}

user_re(d) == <<Lit(<<"u">>)>>

password_re(d) == <<Lit(<<"p">>)>>

prompt_re(d) ==
    IF d = "ios" THEN <<Lit(<<"#">>), Lit(<<">">>)>> ELSE <<Lit(<<">">>)>>

error_re(d) == <<Lit(<<"f">>)>>

login_error_re(d) == <<Lit(<<"f">>)>>

OSes == {"unknown", "ios"}

driver_map(os) == IF os = "ios" THEN "ios" ELSE "generic"

-----------------------------------------------------------------------------
(* The match primitive: re.search of each pattern, in list order. *)

NoMatch == [start |-> 0, end |-> 0, seq |-> "", seed |-> <<>>]

\* The literal toks occurs in buf at position i.
LitAt(toks, buf, i) ==
    /\ i >= 1
    /\ i + Len(toks) - 1 <= Len(buf)
    /\ \A j \in 1..Len(toks) : buf[i + j - 1] = toks[j]

\* The end of the longest run of seed characters that starts at i: (\S+) is
\* greedy, and stops at the end of the buffer or at the first other token.
RECURSIVE SeedEnd(_, _)
SeedEnd(buf, i) ==
    IF i + 1 <= Len(buf) /\ buf[i + 1] = "s" THEN SeedEnd(buf, i + 1) ELSE i

\* pat matches buf at position i.
MatchAt(pat, buf, i) ==
    IF pat.kind = "skey"
    THEN /\ i + 1 <= Len(buf)
         /\ buf[i] = "k"
         /\ buf[i + 1] = "s"
    ELSE LitAt(pat.toks, buf, i)

Matches(pat, buf) == \E i \in 1..Len(buf) : MatchAt(pat, buf, i)

\* re.search: the leftmost match of pat in buf, with its groups.
Search(pat, buf) ==
    LET i == CHOOSE k \in 1..Len(buf) :
                 /\ MatchAt(pat, buf, k)
                 /\ \A l \in 1..(k - 1) : ~MatchAt(pat, buf, l)
    IN  IF pat.kind = "skey"
        THEN [start |-> i, end |-> SeedEnd(buf, i + 1), seq |-> SeqText,
              seed |-> SubSeq(buf, i + 1, SeedEnd(buf, i + 1))]
        ELSE [start |-> i, end |-> i + Len(pat.toks) - 1, seq |-> "",
              seed |-> <<>>]

AnyMatch(pats, buf) == \E i \in 1..Len(pats) : Matches(pats[i], buf)

\* A wrong choice of the winner: the pattern whose match starts first.
FirstIndexByPosition(pats, buf) ==
    CHOOSE i \in 1..Len(pats) :
        /\ Matches(pats[i], buf)
        /\ \A j \in 1..Len(pats) :
               Matches(pats[j], buf) =>
                   \/ Search(pats[i], buf).start < Search(pats[j], buf).start
                   \/ /\ Search(pats[i], buf).start = Search(pats[j], buf).start
                      /\ i <= j

\* The position in the list of the pattern that wins: the first that matches.
FirstIndex(pats, buf) ==
    CHOOSE i \in 1..Len(pats) :
        /\ Matches(pats[i], buf)
        /\ \A j \in 1..(i - 1) : ~Matches(pats[j], buf)

\* What a wait removes from the front of the buffer when pattern m wins.
Consumed(buf, m) == SubSeq(buf, 1, m.end)

Remainder(buf, m) == SubSeq(buf, m.end + 1, Len(buf))

-----------------------------------------------------------------------------
(* Accessors of the session state. *)

Categories == {"user", "password", "prompt", "error", "login_error"}

\* get_driver over explicit values of manual_driver and auto_driver.
GetDriver(manual, auto) == IF manual # None THEN manual ELSE auto

get_driver == GetDriver(manual_driver, auto_driver)

get_username_prompt ==
    IF Truthy(manual_re["user"]) THEN manual_re["user"].val
    ELSE user_re(get_driver)

get_password_prompt ==
    IF Truthy(manual_re["password"]) THEN manual_re["password"].val
    ELSE password_re(get_driver)

get_prompt ==
    IF Truthy(manual_re["prompt"]) THEN manual_re["prompt"].val
    ELSE prompt_re(get_driver)

get_error_prompt ==
    IF Truthy(manual_re["error"]) THEN manual_re["error"].val
    ELSE error_re(get_driver)

get_login_error_prompt ==
    IF Truthy(manual_re["login_error"]) THEN manual_re["login_error"].val
    ELSE login_error_re(get_driver)

\* to_regexs applied to a list: every item is compiled, none is added or
\* dropped.
to_regexs_list(regexs) == [i \in 1..Len(regexs) |-> regexs[i]]

\* What a setter stores for its category: None as it is, anything else as
\* the list to_regexs makes of it.
manual_re_set(c, regex) ==
    [manual_re EXCEPT ![c] = IF regex.isnone THEN NoneSeq
                             ELSE Some(to_regexs_list(regex.val))]

\* What no setter touches.
SetterFrame ==
    UNCHANGED <<buffer, response, authenticated, app_authenticated,
                app_authorized, last_account, manual_driver, auto_driver,
                driver_replaced, cancel, eof, stack, ret, wire, device,
                sent, log, cur, done, snap, ncalls, nrecv>>

set_username_prompt(regex) ==
    /\ stack = <<>>
    /\ manual_re' = manual_re_set("user", regex)
    /\ SetterFrame

set_password_prompt(regex) ==
    /\ stack = <<>>
    /\ manual_re' = manual_re_set("password", regex)
    /\ SetterFrame

set_prompt(prompt) ==
    /\ stack = <<>>
    /\ manual_re' = manual_re_set("prompt", prompt)
    /\ SetterFrame

set_error_prompt(error) ==
    /\ stack = <<>>
    /\ manual_re' = manual_re_set("error", error)
    /\ SetterFrame

set_login_error_prompt(error) ==
    /\ stack = <<>>
    /\ manual_re' = manual_re_set("login_error", error)
    /\ SetterFrame

-----------------------------------------------------------------------------
(* Frames, return values and the call stack. *)

NoPhrase == [password |-> None, seed |-> <<>>, seq |-> 0]

\* What set_driver may be given: None, a string, a driver, anything else.
NoArg == [type |-> "none", val |-> None]

StrArg(name) == [type |-> "str", val |-> name]

DriverArg(d) == [type |-> "driver", val |-> d]

OtherArg == [type |-> "other", val |-> None]

Frame0 == [fn |-> "", pc |-> "start", pats |-> <<>>, flush |-> FALSE,
           acct |-> NoAccount, app |-> NoAccount, user |-> None,
           password |-> None, map |-> <<>>, m |-> NoMatch,
           phrase |-> NoPhrase, cmd |-> None, retry |-> FALSE,
           arg |-> NoArg]

NoRet == [kind |-> "none", exc |-> None, idx |-> -1, m |-> NoMatch,
          msg |-> NoneSeq]

\* A call returned: idx and m are the (index, match) pair of a wait.
Ok(idx, m) == [NoRet EXCEPT !.kind = "ok", !.idx = idx, !.m = m]

OkNone == Ok(-1, NoMatch)

\* A call raised the exception named exc.
Exc(exc) == [NoRet EXCEPT !.kind = "exc", !.exc = exc]

Depth == Len(stack)

Top == stack[Depth]

Pop == SubSeq(stack, 1, Depth - 1)

\* The top frame moves to pc.
Goto(pc) == [stack EXCEPT ![Depth] = [@ EXCEPT !.pc = pc]]

\* The top frame moves to pc and calls the function of frame f.
Call(pc, f) == Append(Goto(pc), f)

At(fn, pc) == Depth > 0 /\ Top.fn = fn /\ Top.pc = pc

Returned == ret.kind = "ok"

Raised(exc) == ret.kind = "exc" /\ ret.exc = exc

Idle == stack = <<>>

domatch_frame(pats, flush, retry) ==
    [Frame0 EXCEPT !.fn = "_domatch", !.pc = "eval", !.pats = pats,
                   !.flush = flush, !.retry = retry]

wait_frame(fn, pats) == [Frame0 EXCEPT !.fn = fn, !.pats = pats]

account_frame(fn, account, flush) ==
    [Frame0 EXCEPT !.fn = fn, !.acct = account, !.flush = flush]

-----------------------------------------------------------------------------
(* The devices. *)

\* The scripted devices, each named by its kind and its state:
\*   nologin  shows a CLI prompt and nothing else;
\*   login    asks for a user name, then a password, then shows a CLI prompt;
\*   otp      asks for a user name, then sends a one-time-password challenge
\*            and a password prompt, then shows a CLI prompt;
\*   reject   asks for a user name and a password and reports a login error;
\*   shell    answers every command: "shell:ok" with its echo, a line of
\*            output and the prompt, "shell:error" with its echo, a line
\*            that is an error text and the prompt, "shell:echo" with an
\*            echo that holds the error text and the prompt.
\* What a device in state dev answers to a line it is sent:
Reply(dev, data) ==
    CASE dev = "login:user" -> <<"p">>
      [] dev = "login:password" -> <<"x", ">">>
      [] dev = "otp:user" -> <<"k", "s", "s", "p">>
      [] dev = "otp:challenge" -> <<"x", ">">>
      [] dev = "reject:user" -> <<"p">>
      [] dev = "reject:password" -> <<"f">>
      [] dev = "shell:ok" -> <<"x", "n", "x", "n", ">">>
      [] dev = "shell:error" -> <<"x", "n", "f", "n", ">">>
      [] dev = "shell:echo" -> <<"f", "n", ">">>
      [] OTHER -> <<>>

DeviceAfter(dev, data) ==
    CASE dev = "login:user" -> "login:password"
      [] dev = "login:password" -> "login:shell"
      [] dev = "otp:user" -> "otp:challenge"
      [] dev = "otp:challenge" -> "otp:shell"
      [] dev = "reject:user" -> "reject:password"
      [] dev = "reject:password" -> "reject:failed"
      [] OTHER -> dev

\* The first prompt of a scripted device.
Greeting(dev) == IF dev = "nologin" THEN <<">">> ELSE <<"u">>

\* Text a device may send before its first prompt.
Banners == {[i \in 1..n |-> "x"] : n \in 0..MaxBanner}

\* What is sent: a text, or a computed one-time password, and its ending.
Line(text) == [text |-> text, phrase |-> NoPhrase, end |-> "\r"]

PhraseLine(phrase) == [text |-> None, phrase |-> phrase, end |-> "\r"]

\* send(data): the transport writes data; the device may answer.
send(data) ==
    /\ sent' = Append(sent, data)
    /\ wire' = wire \o Reply(device, data)
    /\ device' = DeviceAfter(device, data)

NoSend == UNCHANGED <<sent, wire, device>>


-----------------------------------------------------------------------------
(* Groups of variables an action leaves alone. *)

flags == <<authenticated, app_authenticated, app_authorized>>

config == <<manual_driver, manual_re>>

engine == <<buffer, response, auto_driver, driver_replaced, cancel, eof>>

history == <<log, cur, done, snap>>

counters == <<ncalls, nrecv>>

NoSnap == [set |-> FALSE, before |-> <<>>, chunk |-> <<>>]

\* A public call: its arguments, the buffer when it began (buf0), the
\* driver, the flags, last_account and the number of items sent when it
\* began, the data received and the driver changes seen during it, the
\* logins made at the protocol level (proto) and the otp-requested events
\* emitted (otp) during it, and, once it is over, its result and the buffer
\* it left (buf1); the argument of a set_driver (arg); the OS guessed from
\* the chunk received last (guess).
NoCall == [op |-> None, pats |-> <<>>, flush |-> FALSE, acct |-> NoAccount,
           app |-> NoAccount, buf0 |-> <<>>, driver |-> None,
           flags |-> <<FALSE, FALSE, FALSE>>, last |-> NoAccount, nsent |-> 0,
           rx |-> <<>>, swaps |-> 0, proto |-> <<>>, otp |-> <<>>,
           ret |-> NoRet, buf1 |-> <<>>, arg |-> NoArg, guess |-> None]

\* A step of the code that touches only the call stack and ret.
ControlOnly ==
    /\ UNCHANGED <<flags, last_account, config, engine, history, counters>>
    /\ NoSend

-----------------------------------------------------------------------------
(* The state after construction, without a driver or an account given. *)

InitSession ==
    /\ buffer = <<>>
    /\ response = NoneSeq
    /\ authenticated = FALSE
    /\ app_authenticated = FALSE
    /\ app_authorized = FALSE
    /\ last_account = NoAccount
    /\ manual_driver = None
    /\ auto_driver = driver_map("unknown")
    /\ manual_re = [c \in Categories |-> NoneSeq]
    /\ driver_replaced = FALSE
    /\ cancel = FALSE
    /\ eof = FALSE
    /\ stack = <<>>
    /\ ret = NoRet
    /\ sent = <<>>
    /\ log = <<>>
    /\ cur = NoCall
    /\ done = <<>>
    /\ snap = NoSnap
    /\ ncalls = 0
    /\ nrecv = 0

Init ==
    /\ InitSession
    /\ device = "free"
    /\ wire = <<>>

-----------------------------------------------------------------------------
(* The match engine: _domatch, the primitive the protocol adapters supply. *)

Waiting == At("_domatch", "eval") /\ ~AnyMatch(Top.pats, buffer)

\* A pattern of the list matches the buffer: the first in list order wins.
\* The text through the end of its match becomes the response, and in
\* consume mode (flush) leaves the buffer.
domatch_match ==
    /\ At("_domatch", "eval")
    /\ AnyMatch(Top.pats, buffer)
    /\ LET i == FirstIndex(Top.pats, buffer)
           m == Search(Top.pats[i], buffer)
       IN  /\ response' = Some(Consumed(buffer, m))
           /\ buffer' = IF Top.flush THEN Remainder(buffer, m) ELSE buffer
           /\ ret' = Ok(i - 1, m)
    /\ stack' = Pop
    /\ snap' = NoSnap
    /\ UNCHANGED <<flags, last_account, config, auto_driver, driver_replaced,
                   cancel, eof, log, cur, done, counters>>
    /\ NoSend

\* A wrong _receive_cb: while a driver is pinned the guess is not followed.
receive_cb_pinned(data, os, callback) ==
    LET old_driver == get_driver
        auto == IF manual_driver # None THEN auto_driver ELSE driver_map(os)
        new_driver == GetDriver(manual_driver, auto)
    IN  /\ auto_driver' = auto
        /\ driver_replaced' = (driver_replaced \/ old_driver # new_driver)
        /\ cancel' = (cancel \/ old_driver # new_driver \/ callback)
        /\ snap' = IF old_driver # new_driver
                   THEN [set |-> TRUE, before |-> buffer, chunk |-> data]
                   ELSE NoSnap

\* _receive_cb(data): the guessed OS is recomputed from the data (any guess
\* may come out), the automatic driver follows it, and a change of the
\* active driver is notified: _driver_replaced_notify sets driver_replaced
\* and calls cancel_expect().  Then data_received_event fires: callback says
\* whether a listener calls cancel_expect().
receive_cb(data, os, callback) ==
    LET old_driver == get_driver
        new_driver == GetDriver(manual_driver, driver_map(os))
    IN  /\ auto_driver' = driver_map(os)
        /\ driver_replaced' = (driver_replaced \/ old_driver # new_driver)
        /\ cancel' = (cancel \/ old_driver # new_driver \/ callback)
        /\ snap' = IF old_driver # new_driver
                   THEN [set |-> TRUE, before |-> buffer, chunk |-> data]
                   ELSE NoSnap

\* A chunk arrives during a wait that has no match yet: it is appended to
\* the buffer and the data-received path runs, before any pattern is tried.
domatch_receive(data, os, callback) ==
    /\ Waiting
    /\ ~eof
    /\ buffer' = buffer \o data
    /\ receive_cb(data, os, callback)
    /\ stack' = Goto("check")
    /\ cur' = [cur EXCEPT !.rx = @ \o data,
                           !.swaps = IF snap'.set THEN @ + 1 ELSE @,
                           !.guess = os]
    /\ nrecv' = nrecv + Len(data)
    /\ UNCHANGED <<flags, last_account, config, response, eof, ret, sent,
                   device, log, done, ncalls>>

\* The chunks a free device may send now.
FreeChunks ==
    UNION {[1..n -> DeviceTokens(device)] : n \in 1..(MaxData - nrecv)}

Scripted == device \notin {"free", "plain", "bare", "pinned"}

ReceiveFree ==
    /\ ~Scripted
    /\ \E data \in FreeChunks, os \in OSes, callback \in BOOLEAN :
           domatch_receive(data, os, callback)
    /\ wire' = wire

\* A scripted device: the chunk is any part of its pending output.
ReceiveWire ==
    /\ Scripted
    /\ \E n \in 1..Len(wire), os \in OSes, callback \in BOOLEAN :
           /\ domatch_receive(SubSeq(wire, 1, n), os, callback)
           /\ wire' = SubSeq(wire, n + 1, Len(wire))

\* A wrong engine: a chunk that completes a match is matched before the
\* cancellation is looked at.
domatch_check_match_first ==
    /\ At("_domatch", "check")
    /\ IF cancel /\ ~AnyMatch(Top.pats, buffer)
       THEN /\ stack' = Pop
            /\ ret' = IF driver_replaced THEN Exc("DriverReplacedException")
                      ELSE Exc("ExpectCancelledException")
       ELSE /\ stack' = Goto("eval")
            /\ ret' = ret
    /\ cancel' = FALSE
    /\ driver_replaced' = FALSE
    /\ UNCHANGED <<flags, last_account, config, buffer, response, auto_driver,
                   eof, history, counters>>
    /\ NoSend

\* After the chunk: a requested cancellation ends the wait and the flag
\* resets; it is a DriverReplacedException when the driver was replaced.
domatch_check ==
    /\ At("_domatch", "check")
    /\ IF cancel
       THEN /\ stack' = Pop
            /\ ret' = IF driver_replaced THEN Exc("DriverReplacedException")
                      ELSE Exc("ExpectCancelledException")
       ELSE /\ stack' = Goto("eval")
            /\ ret' = ret
    /\ cancel' = FALSE
    /\ driver_replaced' = FALSE
    /\ UNCHANGED <<flags, last_account, config, buffer, response, auto_driver,
                   eof, history, counters>>
    /\ NoSend

\* The timeout elapses before any pattern matches.
domatch_timeout ==
    /\ Waiting
    /\ ~eof
    /\ stack' = Pop
    /\ ret' = Exc("TimeoutException")
    /\ snap' = NoSnap
    /\ UNCHANGED <<flags, last_account, config, engine, log, cur, done,
                   counters>>
    /\ NoSend

\* The transport closes before any pattern matches.
domatch_eof ==
    /\ Waiting
    /\ eof' = TRUE
    /\ stack' = Pop
    /\ ret' = Exc("EOFError")
    /\ snap' = NoSnap
    /\ UNCHANGED <<flags, last_account, config, buffer, response, auto_driver,
                   driver_replaced, cancel, log, cur, done, counters>>
    /\ NoSend

-----------------------------------------------------------------------------
(* waitfor and expect: _domatch in a loop that retries on a driver change. *)

\* A wrong waitfor: it asks the engine to consume the match.
_waitfor_flush(pc, pats, retry) == Call(pc, domatch_frame(pats, TRUE, retry))

\* A wrong expect: it asks the engine to leave the match in the buffer.
_expect_peek(pc, pats, retry) == Call(pc, domatch_frame(pats, FALSE, retry))

\* _waitfor(prompt): _domatch(to_regexs(prompt), False).
_waitfor(pc, pats, retry) == Call(pc, domatch_frame(pats, FALSE, retry))

\* _expect(prompt): _domatch(to_regexs(prompt), True).
_expect(pc, pats, retry) == Call(pc, domatch_frame(pats, TRUE, retry))

waitfor_try ==
    /\ At("waitfor", "start")
    /\ stack' = _waitfor("wait", Top.pats, FALSE)
    /\ ret' = NoRet
    /\ ControlOnly

waitfor_retry ==
    /\ At("waitfor", "wait")
    /\ Raised("DriverReplacedException")
    /\ stack' = _waitfor("wait", Top.pats, TRUE)
    /\ ret' = NoRet
    /\ ControlOnly

waitfor_return ==
    /\ At("waitfor", "wait")
    /\ Returned
    /\ stack' = Pop
    /\ ret' = ret
    /\ ControlOnly

expect_try ==
    /\ At("expect", "start")
    /\ stack' = _expect("wait", Top.pats, FALSE)
    /\ ret' = NoRet
    /\ ControlOnly

\* A wrong retry: it starts from an empty buffer.
expect_retry_cleared ==
    /\ At("expect", "wait")
    /\ Raised("DriverReplacedException")
    /\ stack' = _expect("wait", Top.pats, TRUE)
    /\ ret' = NoRet
    /\ buffer' = <<>>
    /\ UNCHANGED <<flags, last_account, config, response, auto_driver,
                   driver_replaced, cancel, eof, history, counters>>
    /\ NoSend

expect_retry ==
    /\ At("expect", "wait")
    /\ Raised("DriverReplacedException")
    /\ stack' = _expect("wait", Top.pats, TRUE)
    /\ ret' = NoRet
    /\ ControlOnly

expect_return ==
    /\ At("expect", "wait")
    /\ Returned
    /\ stack' = Pop
    /\ ret' = ret
    /\ ControlOnly


-----------------------------------------------------------------------------
(* expect_prompt and execute. *)

\* The scan of the response for errors: "match" is set to None for every
\* line and never to anything else, so no line counts as an error.
ScanMatch(line) == None

ErrorFound(lines) == \E i \in 2..Len(lines) : ScanMatch(lines[i]) # None

\* text.split('\n'): the lines of the text.
RECURSIVE split(_)
split(text) ==
    IF \E i \in 1..Len(text) : text[i] = "n"
    THEN LET i == CHOOSE k \in 1..Len(text) :
                      /\ text[k] = "n"
                      /\ \A l \in 1..(k - 1) : text[l] # "n"
         IN  <<SubSeq(text, 1, i - 1)>> \o split(SubSeq(text, i + 1, Len(text)))
    ELSE <<text>>

\* self.expect(self.get_prompt()): the prompt list is resolved here, once.
expect_prompt_try ==
    /\ At("expect_prompt", "start")
    /\ stack' = Call("scan", wait_frame("expect", get_prompt))
    /\ ret' = NoRet
    /\ ControlOnly

expect_prompt_scan ==
    /\ At("expect_prompt", "scan")
    /\ Returned
    /\ stack' = Pop
    /\ ret' = IF ErrorFound(split(response.val))
              THEN Exc("InvalidCommandException") ELSE OkNone
    /\ ControlOnly

execute_try ==
    /\ At("execute", "start")
    /\ send(Line(Top.cmd))
    /\ stack' = Call("wait", [Frame0 EXCEPT !.fn = "expect_prompt"])
    /\ ret' = NoRet
    /\ UNCHANGED <<flags, last_account, config, engine, history, counters>>

execute_return ==
    /\ At("execute", "wait")
    /\ Returned
    /\ stack' = Pop
    /\ ret' = ret
    /\ ControlOnly

-----------------------------------------------------------------------------
(* Accounts and protocol-level authentication. *)

\* A wrong lookup: the account remembered is not fallen back on.
get_account_given(account) == account

\* _get_account(account): the argument, or else last_account.
get_account(account) == IF account = NoAccount THEN last_account ELSE account

\* A wrong check: the account is missed only after the protocol-level
\* login has been recorded.
missing_account_late(fn) ==
    /\ At(fn, "start")
    /\ get_account(Top.acct) = NoAccount
    /\ stack' = Pop
    /\ ret' = Exc("TypeError")
    /\ authenticated' = TRUE
    /\ UNCHANGED <<app_authenticated, app_authorized, last_account, config,
                   engine, history, counters>>
    /\ NoSend

\* A call made without any account raises TypeError at once.
missing_account(fn) ==
    /\ At(fn, "start")
    /\ get_account(Top.acct) = NoAccount
    /\ stack' = Pop
    /\ ret' = Exc("TypeError")
    /\ ControlOnly

HasAccount(fn) == At(fn, "start") /\ get_account(Top.acct) # NoAccount

\* _protocol_authenticate(user, password), as the caller of the adapter
\* sees it.
protocol_authenticate(user, password) ==
    [method |-> "password", user |-> user, password |-> password,
     key |-> None]

\* _protocol_authenticate_by_key(user, key).
protocol_authenticate_by_key(user, key) ==
    [method |-> "key", user |-> user, password |-> None, key |-> key]

\* A wrong authenticate: the password is used whether there is a key or not.
authenticate_try_password ==
    /\ HasAccount("authenticate")
    /\ last_account' = get_account(Top.acct)
    /\ LET account == get_account(Top.acct)
       IN  cur' = [cur EXCEPT !.proto =
                       Append(@, protocol_authenticate(account.name,
                                                       account.password))]
    /\ authenticated' = TRUE
    /\ IF Top.flush
       THEN stack' = Call("flush", [Frame0 EXCEPT !.fn = "expect_prompt"])
       ELSE stack' = Pop
    /\ ret' = IF Top.flush THEN NoRet ELSE OkNone
    /\ UNCHANGED <<app_authenticated, app_authorized, config, engine, log,
                   done, snap, counters>>
    /\ NoSend

\* authenticate(account, flush): the login of the protocol, by key if the
\* account has a key; authenticated is set; with flush, expect_prompt().
authenticate_try ==
    /\ HasAccount("authenticate")
    /\ last_account' = get_account(Top.acct)
    /\ LET account == get_account(Top.acct)
           user == account.name
           password == account.password
           key == account.key
       IN  cur' = [cur EXCEPT !.proto =
                       Append(@, IF key = None
                                 THEN protocol_authenticate(user, password)
                                 ELSE protocol_authenticate_by_key(user,
                                                                   key))]
    /\ authenticated' = TRUE
    /\ IF Top.flush
       THEN stack' = Call("flush", [Frame0 EXCEPT !.fn = "expect_prompt"])
       ELSE stack' = Pop
    /\ ret' = IF Top.flush THEN NoRet ELSE OkNone
    /\ UNCHANGED <<app_authenticated, app_authorized, config, engine, log,
                   done, snap, counters>>
    /\ NoSend

authenticate_return ==
    /\ At("authenticate", "flush")
    /\ Returned
    /\ stack' = Pop
    /\ ret' = OkNone
    /\ ControlOnly

-----------------------------------------------------------------------------
(* The prompt race, _app_authenticate(user, password, flush). *)

Section(name, prompts) ==
    [i \in 1..Len(prompts) |-> [section |-> name, prompt |-> prompts[i]]]

\* A wrong order of the sections: the login errors are tried last.
prompt_map_error_last ==
    Section("username", get_username_prompt)
        \o Section("skey", <<_skey_re>>)
        \o Section("password", get_password_prompt)
        \o Section("cli", get_prompt)
        \o Section("login-error", get_login_error_prompt)

\* prompt_map: every prompt with its section, in the order of the sections.
prompt_map ==
    Section("login-error", get_login_error_prompt)
        \o Section("username", get_username_prompt)
        \o Section("skey", <<_skey_re>>)
        \o Section("password", get_password_prompt)
        \o Section("cli", get_prompt)

prompt_list(map) == [i \in 1..Len(map) |-> map[i].prompt]

race_frame(user, password, flush) ==
    [Frame0 EXCEPT !.fn = "_app_authenticate", !.user = user,
                   !.password = password, !.flush = flush]

\* A wrong loop: the wait consumes the prompt it finds.
race_wait_consuming ==
    /\ At("_app_authenticate", "start")
    /\ stack' = Append([stack EXCEPT ![Depth] =
                            [@ EXCEPT !.pc = "wait", !.map = prompt_map]],
                       domatch_frame(prompt_list(prompt_map), TRUE,
                                     Top.retry))
    /\ ret' = NoRet
    /\ ControlOnly

\* A wrong loop: after a driver change it waits on the list it had built.
race_wait_captured ==
    /\ At("_app_authenticate", "start")
    /\ LET map == IF Top.retry THEN Top.map ELSE prompt_map
       IN  stack' = Append([stack EXCEPT ![Depth] =
                                [@ EXCEPT !.pc = "wait", !.map = map]],
                           domatch_frame(prompt_list(map), FALSE, Top.retry))
    /\ ret' = NoRet
    /\ ControlOnly

\* The top of the loop: build the prompt list and wait for any prompt,
\* without consuming it.
race_wait ==
    /\ At("_app_authenticate", "start")
    /\ stack' = Append([stack EXCEPT ![Depth] =
                            [@ EXCEPT !.pc = "wait", !.map = prompt_map]],
                       domatch_frame(prompt_list(prompt_map), FALSE,
                                     Top.retry))
    /\ ret' = NoRet
    /\ ControlOnly

\* A wrong handler: after a timeout the race waits again.
race_timeout_retry ==
    /\ At("_app_authenticate", "wait")
    /\ Raised("TimeoutException")
    /\ stack' = [stack EXCEPT ![Depth] =
                     [@ EXCEPT !.pc = "start", !.retry = TRUE]]
    /\ ret' = NoRet
    /\ ControlOnly

\* except TimeoutException: response becomes '' if it is None, and a new
\* TimeoutException carries the text of the response.
race_timeout ==
    /\ At("_app_authenticate", "wait")
    /\ Raised("TimeoutException")
    /\ response' = IF response.isnone THEN Some(<<>>) ELSE response
    /\ stack' = Pop
    /\ ret' = [Exc("TimeoutException") EXCEPT !.msg = response']
    /\ UNCHANGED <<flags, last_account, config, buffer, auto_driver,
                   driver_replaced, cancel, eof, history, counters>>
    /\ NoSend

\* A wrong handler: the exception leaves the prompt race.
race_driver_replaced_raise ==
    /\ At("_app_authenticate", "wait")
    /\ Raised("DriverReplacedException")
    /\ stack' = Pop
    /\ ret' = ret
    /\ ControlOnly

\* except DriverReplacedException: continue.
race_driver_replaced ==
    /\ At("_app_authenticate", "wait")
    /\ Raised("DriverReplacedException")
    /\ stack' = [stack EXCEPT ![Depth] =
                     [@ EXCEPT !.pc = "start", !.retry = TRUE]]
    /\ ret' = NoRet
    /\ ControlOnly

MatchedSection == Top.map[ret.idx + 1].section

MatchedPrompt == Top.map[ret.idx + 1].prompt

Dispatch(section) ==
    /\ At("_app_authenticate", "wait")
    /\ Returned
    /\ MatchedSection = section

\* A wrong branch: the error text is consumed before the failure is raised.
race_login_error_consumed ==
    /\ Dispatch("login-error")
    /\ buffer' = Remainder(buffer, ret.m)
    /\ stack' = Pop
    /\ ret' = Exc("LoginFailure")
    /\ UNCHANGED <<flags, last_account, config, response, auto_driver,
                   driver_replaced, cancel, eof, history, counters>>
    /\ NoSend

\* section == 'login-error': raise LoginFailure.
race_login_error ==
    /\ Dispatch("login-error")
    /\ stack' = Pop
    /\ ret' = Exc("LoginFailure")
    /\ ControlOnly

\* self.expect(prompt) consumes the prompt that was matched.
race_username ==
    /\ Dispatch("username")
    /\ stack' = Call("username", wait_frame("expect", to_regexs(MatchedPrompt)))
    /\ ret' = NoRet
    /\ ControlOnly

race_send_user ==
    /\ At("_app_authenticate", "username")
    /\ Returned
    /\ send(Line(Top.user))
    /\ stack' = [stack EXCEPT ![Depth] =
                     [@ EXCEPT !.pc = "start", !.retry = FALSE]]
    /\ ret' = NoRet
    /\ UNCHANGED <<flags, last_account, config, engine, history, counters>>

race_skey ==
    /\ Dispatch("skey")
    /\ stack' = Append([stack EXCEPT ![Depth] =
                            [@ EXCEPT !.pc = "skey", !.m = ret.m]],
                       wait_frame("expect", to_regexs(MatchedPrompt)))
    /\ ret' = NoRet
    /\ ControlOnly

\* otp(password, seed, seq): the one-time password, as the value computed.
otp(password, seed, seq) == [password |-> password, seed |-> seed, seq |-> seq]

\* _otp_cb(seq, seed): the otp-requested event, as a listener receives it.
otp_requested_event(seq, seed) == [seq |-> seq, seed |-> seed]

\* The challenge is consumed: seq and seed are read from the match of the
\* wait, the event is emitted, the phrase is computed, and a password
\* prompt is expected.
race_skey_password ==
    /\ At("_app_authenticate", "skey")
    /\ Returned
    /\ LET seq == int(Top.m.seq)
           seed == Top.m.seed
       IN  /\ cur' = [cur EXCEPT !.otp =
                          Append(@, otp_requested_event(seq, seed))]
           /\ stack' = Append([stack EXCEPT ![Depth] =
                                   [@ EXCEPT !.pc = "phrase",
                                             !.phrase = otp(Top.password,
                                                            seed, seq)]],
                              wait_frame("expect", get_password_prompt))
    /\ ret' = NoRet
    /\ UNCHANGED <<flags, last_account, config, engine, log, done, snap,
                   counters>>
    /\ NoSend

\* A wrong answer to the challenge: the password itself is sent.
race_send_phrase_cleartext ==
    /\ At("_app_authenticate", "phrase")
    /\ Returned
    /\ send(Line(Top.password))
    /\ stack' = [stack EXCEPT ![Depth] =
                     [@ EXCEPT !.pc = "start", !.retry = FALSE]]
    /\ ret' = NoRet
    /\ UNCHANGED <<flags, last_account, config, engine, history, counters>>

race_send_phrase ==
    /\ At("_app_authenticate", "phrase")
    /\ Returned
    /\ send(PhraseLine(Top.phrase))
    /\ stack' = [stack EXCEPT ![Depth] =
                     [@ EXCEPT !.pc = "start", !.retry = FALSE]]
    /\ ret' = NoRet
    /\ UNCHANGED <<flags, last_account, config, engine, history, counters>>

\* A wrong branch: the password prompt is left in the buffer.
race_password_unconsumed ==
    /\ Dispatch("password")
    /\ stack' = Goto("password")
    /\ ret' = ret
    /\ ControlOnly

race_password ==
    /\ Dispatch("password")
    /\ stack' = Call("password", wait_frame("expect", to_regexs(MatchedPrompt)))
    /\ ret' = NoRet
    /\ ControlOnly

race_send_password ==
    /\ At("_app_authenticate", "password")
    /\ Returned
    /\ send(Line(Top.password))
    /\ stack' = [stack EXCEPT ![Depth] =
                     [@ EXCEPT !.pc = "start", !.retry = FALSE]]
    /\ ret' = NoRet
    /\ UNCHANGED <<flags, last_account, config, engine, history, counters>>

\* A wrong end of the loop: the prompt is never flushed.
race_cli_keep ==
    /\ Dispatch("cli")
    /\ stack' = Pop
    /\ ret' = OkNone
    /\ ControlOnly

\* A wrong end of the loop: the prompt is flushed whatever flush says.
race_cli_flush ==
    /\ Dispatch("cli")
    /\ stack' = Call("flush", [Frame0 EXCEPT !.fn = "expect_prompt"])
    /\ ret' = NoRet
    /\ ControlOnly

\* The shell prompt ends the loop; with flush, expect_prompt() follows.
race_cli ==
    /\ Dispatch("cli")
    /\ IF Top.flush
       THEN stack' = Call("flush", [Frame0 EXCEPT !.fn = "expect_prompt"])
       ELSE stack' = Pop
    /\ ret' = IF Top.flush THEN NoRet ELSE OkNone
    /\ ControlOnly

race_return ==
    /\ At("_app_authenticate", "flush")
    /\ Returned
    /\ stack' = Pop
    /\ ret' = OkNone
    /\ ControlOnly


-----------------------------------------------------------------------------
(* Application-level authentication and authorization, and login. *)

app_authenticate_try ==
    /\ HasAccount("app_authenticate")
    /\ last_account' = get_account(Top.acct)
    /\ LET account == get_account(Top.acct)
       IN  stack' = Call("race", race_frame(account.name, account.password,
                                            Top.flush))
    /\ ret' = NoRet
    /\ UNCHANGED <<flags, config, engine, history, counters>>
    /\ NoSend

app_authenticate_return ==
    /\ At("app_authenticate", "race")
    /\ Returned
    /\ app_authenticated' = TRUE
    /\ stack' = Pop
    /\ ret' = OkNone
    /\ UNCHANGED <<authenticated, app_authorized, last_account, config,
                   engine, history, counters>>
    /\ NoSend

\* A wrong choice: the ordinary password, whatever the account holds.
ordinary_password(account) == account.password

\* The authorization password, or the password when there is none.
authorization_password(account) ==
    IF account.password2 = None THEN account.password ELSE account.password2

app_authorize_try ==
    /\ HasAccount("app_authorize")
    /\ last_account' = get_account(Top.acct)
    /\ LET account == get_account(Top.acct)
       IN  stack' = Call("race",
                         race_frame(account.name,
                                    authorization_password(account),
                                    Top.flush))
    /\ ret' = NoRet
    /\ UNCHANGED <<flags, config, engine, history, counters>>
    /\ NoSend

app_authorize_return ==
    /\ At("app_authorize", "race")
    /\ Returned
    /\ app_authorized' = TRUE
    /\ stack' = Pop
    /\ ret' = OkNone
    /\ UNCHANGED <<authenticated, app_authenticated, last_account, config,
                   engine, history, counters>>
    /\ NoSend

\* A driver with an authorization procedure: "ios" sends "enable" and runs
\* app_authorize; "generic" does nothing.
HasAAA(driver) == driver = "ios"

auto_app_authorize_noop ==
    /\ HasAccount("auto_app_authorize")
    /\ ~HasAAA(get_driver)
    /\ last_account' = get_account(Top.acct)
    /\ stack' = Pop
    /\ ret' = OkNone
    /\ UNCHANGED <<flags, config, engine, history, counters>>
    /\ NoSend

auto_app_authorize_enable ==
    /\ HasAccount("auto_app_authorize")
    /\ HasAAA(get_driver)
    /\ last_account' = get_account(Top.acct)
    /\ send(Line("enable"))
    /\ stack' = Call("driver", account_frame("app_authorize",
                                             get_account(Top.acct), Top.flush))
    /\ ret' = NoRet
    /\ UNCHANGED <<flags, config, engine, history, counters>>

auto_app_authorize_return ==
    /\ At("auto_app_authorize", "driver")
    /\ Returned
    /\ stack' = Pop
    /\ ret' = OkNone
    /\ ControlOnly

\* A step login() starts: the function, its account and its flush.
Step(fn, account, flush) == [fn |-> fn, acct |-> account, flush |-> flush]

\* login(account, app_account, flush): app_account defaults to account.
login_authenticate ==
    /\ HasAccount("login")
    /\ last_account' = get_account(Top.acct)
    /\ LET account == get_account(Top.acct)
           app_account == IF Top.app = NoAccount THEN account ELSE Top.app
       IN  /\ stack' = Append([stack EXCEPT ![Depth] =
                                   [@ EXCEPT !.pc = "authenticate",
                                             !.acct = account,
                                             !.app = app_account]],
                              account_frame("authenticate", account, FALSE))
           /\ log' = Append(log, Step("authenticate", account, FALSE))
    /\ ret' = NoRet
    /\ UNCHANGED <<flags, config, engine, cur, done, snap, counters>>
    /\ NoSend

login_app_authenticate ==
    /\ At("login", "authenticate")
    /\ Returned
    /\ stack' = Call("app_authenticate",
                     account_frame("app_authenticate", Top.app, FALSE))
    /\ log' = Append(log, Step("app_authenticate", Top.app, FALSE))
    /\ ret' = NoRet
    /\ UNCHANGED <<flags, last_account, config, engine, cur, done, snap,
                   counters>>
    /\ NoSend

\* A wrong last step: it is given the account of the first step.
login_auto_app_authorize_account ==
    /\ At("login", "app_authenticate")
    /\ Returned
    /\ stack' = Call("auto_app_authorize",
                     account_frame("auto_app_authorize", Top.acct, Top.flush))
    /\ log' = Append(log, Step("auto_app_authorize", Top.acct, Top.flush))
    /\ ret' = NoRet
    /\ UNCHANGED <<flags, last_account, config, engine, cur, done, snap,
                   counters>>
    /\ NoSend

login_auto_app_authorize ==
    /\ At("login", "app_authenticate")
    /\ Returned
    /\ stack' = Call("auto_app_authorize",
                     account_frame("auto_app_authorize", Top.app, Top.flush))
    /\ log' = Append(log, Step("auto_app_authorize", Top.app, Top.flush))
    /\ ret' = NoRet
    /\ UNCHANGED <<flags, last_account, config, engine, cur, done, snap,
                   counters>>
    /\ NoSend

login_return ==
    /\ At("login", "auto_app_authorize")
    /\ Returned
    /\ stack' = Pop
    /\ ret' = OkNone
    /\ ControlOnly

-----------------------------------------------------------------------------
(* set_driver. *)

\* The names driver_map has a driver for.
driver_names == OSes \cup Drivers

\* isdriver(o): o is a driver.
isdriver(o) == o.type = "driver"

\* A wrong set_driver: a string is taken for the name of a driver, known
\* or not.
set_driver_unchecked ==
    /\ At("set_driver", "start")
    /\ LET driver == Top.arg
       IN  /\ manual_driver' =
                  CASE driver.type = "none" -> None
                    [] driver.type = "str" -> driver_map(driver.val)
                    [] isdriver(driver) -> driver.val
                    [] OTHER -> manual_driver
           /\ ret' = IF driver.type \in {"none", "str", "driver"} THEN OkNone
                     ELSE Exc("TypeError")
    /\ stack' = Pop
    /\ UNCHANGED <<flags, last_account, manual_re, engine, history, counters>>
    /\ NoSend

\* set_driver(driver): None unpins; a known name pins the driver of that
\* name and a driver pins itself; anything else raises TypeError.
set_driver ==
    /\ At("set_driver", "start")
    /\ LET driver == Top.arg
           known == driver.type = "str" /\ driver.val \in driver_names
       IN  /\ manual_driver' =
                  CASE driver.type = "none" -> None
                    [] known -> driver_map(driver.val)
                    [] isdriver(driver) -> driver.val
                    [] OTHER -> manual_driver
           /\ ret' = IF driver.type = "none" \/ known \/ isdriver(driver)
                     THEN OkNone ELSE Exc("TypeError")
    /\ stack' = Pop
    /\ UNCHANGED <<flags, last_account, manual_re, engine, history, counters>>
    /\ NoSend

-----------------------------------------------------------------------------
(* Exceptions. *)

\* The frame fn at pc has an except clause for the exception exc.
Catches(fn, pc, exc) ==
    CASE fn \in {"waitfor", "expect"} -> exc = "DriverReplacedException"
      [] fn = "_app_authenticate" /\ pc = "wait" ->
             exc \in {"TimeoutException", "DriverReplacedException"}
      [] OTHER -> FALSE

\* An exception no except clause of the top frame names leaves the frame.
propagate ==
    /\ Depth > 0
    /\ ret.kind = "exc"
    /\ ~Catches(Top.fn, Top.pc, ret.exc)
    /\ stack' = Pop
    /\ ret' = ret
    /\ ControlOnly

-----------------------------------------------------------------------------
(* The caller: public calls, one at a time. *)

\* Pattern lists the caller waits for.
UserPatterns ==
    {<<Lit(<<"u">>), Lit(<<"p">>)>>,
     <<Lit(<<"p", "u">>), Lit(<<"u">>)>>}

Commands == {"show"}

\* The number of public calls a session with this device is followed for.
CallLimit(dev) ==
    CASE dev = "free" -> MaxCalls
      [] dev = "plain" -> MaxWaitCalls
      [] dev = "bare" -> MaxCalls
      [] dev = "pinned" -> MaxDriverCalls
      [] OTHER -> MaxDeviceCalls

\* The public call that ended last, with its result.
Last == [cur EXCEPT !.ret = ret, !.buf1 = buffer]

\* The history of a public call that starts now.
BeginWith(op, pats, flush, account, app_account, arg) ==
    /\ Idle
    /\ ncalls < CallLimit(device)
    /\ ncalls' = ncalls + 1
    /\ done' = IF ncalls = 0 THEN <<>> ELSE Append(done, Last)
    /\ cur' = [NoCall EXCEPT !.op = op, !.pats = pats, !.flush = flush,
                              !.acct = account, !.app = app_account,
                              !.buf0 = buffer, !.driver = get_driver,
                              !.flags = flags, !.last = last_account,
                              !.nsent = Len(sent), !.arg = arg]
    /\ log' = <<>>
    /\ snap' = NoSnap
    /\ ret' = NoRet
    /\ UNCHANGED <<flags, last_account, config, engine, nrecv>>
    /\ NoSend

Begin(op, pats, flush, account, app_account) ==
    BeginWith(op, pats, flush, account, app_account, NoArg)

CallSetDriver(driver) ==
    /\ BeginWith("set_driver", <<>>, FALSE, NoAccount, NoAccount, driver)
    /\ stack' = <<[Frame0 EXCEPT !.fn = "set_driver", !.arg = driver]>>

CallWait(fn, pats) ==
    /\ Begin(fn, pats, FALSE, NoAccount, NoAccount)
    /\ stack' = <<wait_frame(fn, pats)>>

CallExpectPrompt ==
    /\ Begin("expect_prompt", <<>>, FALSE, NoAccount, NoAccount)
    /\ stack' = <<[Frame0 EXCEPT !.fn = "expect_prompt"]>>

CallExecute(command) ==
    /\ Begin("execute", <<>>, FALSE, NoAccount, NoAccount)
    /\ stack' = <<[Frame0 EXCEPT !.fn = "execute", !.cmd = command]>>

CallAccount(fn, account, flush) ==
    /\ Begin(fn, <<>>, flush, account, NoAccount)
    /\ stack' = <<account_frame(fn, account, flush)>>

CallLogin(account, app_account, flush) ==
    /\ Begin("login", <<>>, flush, account, app_account)
    /\ stack' = <<[account_frame("login", account, flush)
                      EXCEPT !.app = app_account]>>

AccountArgs == Accounts \cup {NoAccount}

AccountCalls ==
    {"authenticate", "app_authenticate", "app_authorize", "auto_app_authorize"}

WaitCall ==
    \/ \E fn \in {"waitfor", "expect"}, pats \in UserPatterns :
           CallWait(fn, pats)
    \/ CallExpectPrompt
    \/ \E command \in Commands : CallExecute(command)

AuthCall ==
    \/ \E fn \in AccountCalls, account \in AccountArgs, flush \in BOOLEAN :
           CallAccount(fn, account, flush)
    \/ \E account \in AccountArgs, app_account \in AccountArgs,
          flush \in BOOLEAN :
           CallLogin(account, app_account, flush)

Engine ==
    \/ domatch_match
    \/ domatch_check
    \/ domatch_timeout
    \/ domatch_eof

WaitCode ==
    \/ waitfor_try \/ waitfor_retry \/ waitfor_return
    \/ expect_try \/ expect_retry \/ expect_return
    \/ expect_prompt_try \/ expect_prompt_scan
    \/ propagate

AuthCode ==
    \/ \E fn \in AccountCalls \cup {"login"} : missing_account(fn)
    \/ authenticate_try
    \/ race_wait \/ race_timeout \/ race_driver_replaced
    \/ race_login_error
    \/ race_username \/ race_send_user
    \/ race_skey \/ race_skey_password \/ race_send_phrase
    \/ race_password \/ race_send_password
    \/ race_cli \/ race_return
    \/ app_authenticate_try \/ app_authenticate_return
    \/ app_authorize_try \/ app_authorize_return
    \/ auto_app_authorize_noop \/ auto_app_authorize_enable
    \/ auto_app_authorize_return
    \/ login_authenticate \/ login_app_authenticate
    \/ login_auto_app_authorize \/ login_return

\* A session in which the caller makes any one public call, and the device
\* sends anything.
Next ==
    \/ WaitCall \/ AuthCall
    \/ ReceiveFree \/ Engine
    \/ WaitCode \/ execute_try \/ execute_return
    \/ AuthCode \/ authenticate_return

Spec == Init /\ [][Next]_vars

\* A session in which the caller only waits, several times.
InitWait ==
    /\ InitSession
    /\ device = "plain"
    /\ wire = <<>>

NextWait ==
    \/ WaitCall
    \/ ReceiveFree \/ Engine
    \/ WaitCode \/ execute_try \/ execute_return

SpecWait == InitWait /\ [][NextWait]_vars

\* A session with a scripted device: the caller logs in, then expects the
\* CLI prompt.
InitDevice ==
    /\ InitSession
    /\ device \in {"nologin", "login:user", "otp:user", "reject:user"}
    /\ \E banner \in Banners : wire = banner \o Greeting(device)

DeviceCall ==
    \/ /\ ncalls = 0
       /\ \E account \in AccountArgs, app_account \in AccountArgs,
             flush \in BOOLEAN :
              CallLogin(account, app_account, flush)
    \/ /\ ncalls > 0
       /\ CallExpectPrompt

NextDevice ==
    \/ DeviceCall
    \/ ReceiveWire \/ Engine
    \/ expect_try \/ expect_retry \/ expect_return
    \/ expect_prompt_try \/ expect_prompt_scan
    \/ propagate
    \/ AuthCode

SpecDevice == InitDevice /\ [][NextDevice]_vars

\* A session with a device that is at its shell: the caller executes
\* commands.
InitExecute ==
    /\ InitSession
    /\ device \in {"shell:ok", "shell:error", "shell:echo"}
    /\ wire = <<>>

NextExecute ==
    \/ /\ ncalls < MaxExecuteCalls
       /\ \E command \in Commands : CallExecute(command)
    \/ ReceiveWire \/ Engine
    \/ expect_try \/ expect_retry \/ expect_return
    \/ expect_prompt_try \/ expect_prompt_scan
    \/ propagate
    \/ execute_try \/ execute_return

SpecExecute == InitExecute /\ [][NextExecute]_vars

\* A session in which the caller sets and clears the overrides of the five
\* categories and waits for the CLI prompt.
InitConfig ==
    /\ InitSession
    /\ device = "bare"
    /\ wire = <<>>

\* What the caller gives a setter: None, an empty list, a list of one
\* pattern.
SetterArgs == {NoneSeq, Some(<<>>), Some(<<Lit(<<"#">>)>>)}

NextConfig ==
    \/ \E regex \in SetterArgs : set_username_prompt(regex)
    \/ \E regex \in SetterArgs : set_password_prompt(regex)
    \/ \E prompt \in SetterArgs : set_prompt(prompt)
    \/ \E error \in SetterArgs : set_error_prompt(error)
    \/ \E error \in SetterArgs : set_login_error_prompt(error)
    \/ CallExpectPrompt
    \/ ReceiveFree \/ Engine
    \/ expect_try \/ expect_retry \/ expect_return
    \/ expect_prompt_try \/ expect_prompt_scan
    \/ propagate

SpecConfig == InitConfig /\ [][NextConfig]_vars

\* A session in which the caller runs the prompt race once, and the device
\* sends anything, in finitely many chunks.
InitRace ==
    /\ InitSession
    /\ device = "free"
    /\ wire = <<>>

RaceCall ==
    \E fn \in {"app_authenticate", "app_authorize"}, account \in Accounts,
       flush \in BOOLEAN :
        CallAccount(fn, account, flush)

\* The steps of the code and of the engine, the arrival of data apart.
RaceCode ==
    \/ Engine
    \/ expect_try \/ expect_retry \/ expect_return
    \/ expect_prompt_try \/ expect_prompt_scan
    \/ propagate
    \/ race_wait \/ race_timeout \/ race_driver_replaced
    \/ race_login_error
    \/ race_username \/ race_send_user
    \/ race_skey \/ race_skey_password \/ race_send_phrase
    \/ race_password \/ race_send_password
    \/ race_cli \/ race_return
    \/ app_authenticate_try \/ app_authenticate_return
    \/ app_authorize_try \/ app_authorize_return

NextRace == RaceCall \/ ReceiveFree \/ RaceCode

\* The code runs on, and a wait that nothing ends otherwise ends with its
\* timeout.
SpecRace == InitRace /\ [][NextRace]_vars /\ WF_vars(RaceCode)

\* A session with a device that shows a CLI prompt, in which the caller
\* makes calls that take an account, with and without one.
InitAccounts ==
    /\ InitSession
    /\ device = "nologin"
    /\ wire = Greeting(device)

AccountCall ==
    /\ ncalls < MaxAccountCalls
    /\ AuthCall

NextAccounts ==
    \/ AccountCall
    \/ ReceiveWire \/ Engine
    \/ expect_try \/ expect_retry \/ expect_return
    \/ expect_prompt_try \/ expect_prompt_scan
    \/ propagate
    \/ \E fn \in AccountCalls \cup {"login"} : missing_account(fn)
    \/ authenticate_try \/ authenticate_return
    \/ race_wait \/ race_timeout \/ race_driver_replaced
    \/ race_cli \/ race_return
    \/ app_authenticate_try \/ app_authenticate_return
    \/ app_authorize_try \/ app_authorize_return
    \/ auto_app_authorize_noop \/ auto_app_authorize_enable
    \/ auto_app_authorize_return
    \/ login_authenticate \/ login_app_authenticate
    \/ login_auto_app_authorize \/ login_return

SpecAccounts == InitAccounts /\ [][NextAccounts]_vars

\* A session in which the caller pins and unpins the driver and waits for
\* the CLI prompt.
InitDriver ==
    /\ InitSession
    /\ device = "pinned"
    /\ wire = <<>>

\* What the caller gives set_driver.
DriverArgs ==
    {NoArg, StrArg("ios"), StrArg("generic"), StrArg("nosuch"),
     DriverArg("ios"), OtherArg}

NextDriver ==
    \/ \E driver \in DriverArgs : CallSetDriver(driver)
    \/ set_driver
    \/ CallExpectPrompt
    \/ ReceiveFree \/ Engine
    \/ expect_try \/ expect_retry \/ expect_return
    \/ expect_prompt_try \/ expect_prompt_scan
    \/ propagate

SpecDriver == InitDriver /\ [][NextDriver]_vars

\* A session with a scripted device in which the caller makes the steps of
\* the application level itself, one after the other.
InitSteps ==
    /\ InitSession
    /\ device \in {"nologin", "login:user"}
    /\ \E banner \in Banners : wire = banner \o Greeting(device)

StepCall ==
    /\ ncalls < MaxStepCalls
    /\ \E fn \in {"app_authenticate", "app_authorize"}, account \in AccountArgs,
          flush \in BOOLEAN :
           CallAccount(fn, account, flush)

NextSteps ==
    \/ StepCall
    \/ ReceiveWire \/ Engine
    \/ expect_try \/ expect_return
    \/ expect_prompt_try \/ expect_prompt_scan
    \/ propagate
    \/ \E fn \in {"app_authenticate", "app_authorize"} : missing_account(fn)
    \/ race_wait \/ race_timeout \/ race_driver_replaced
    \/ race_username \/ race_send_user
    \/ race_password \/ race_send_password
    \/ race_cli \/ race_return
    \/ app_authenticate_try \/ app_authenticate_return
    \/ app_authorize_try \/ app_authorize_return

SpecSteps == InitSteps /\ [][NextSteps]_vars

\* A session with a device that rejects the login, in which the caller
\* makes the steps of the application level one after the other.
InitReject ==
    /\ InitSession
    /\ device = "reject:user"
    /\ \E banner \in Banners : wire = banner \o Greeting(device)

NextReject ==
    \/ StepCall
    \/ ReceiveWire \/ Engine
    \/ expect_try \/ expect_return
    \/ propagate
    \/ \E fn \in {"app_authenticate", "app_authorize"} : missing_account(fn)
    \/ race_wait \/ race_timeout \/ race_driver_replaced
    \/ race_login_error
    \/ race_username \/ race_send_user
    \/ race_password \/ race_send_password
    \/ app_authenticate_try \/ app_authorize_try

SpecReject == InitReject /\ [][NextReject]_vars


-----------------------------------------------------------------------------
(* Properties of the wait operations. *)

\* The literal pattern pat occurs in text at position i.
OccursAt(pat, text, i) ==
    /\ i + Len(pat.toks) - 1 <= Len(text)
    /\ SubSeq(text, i, i + Len(pat.toks) - 1) = pat.toks

Occurs(pat, text) == \E i \in 1..Len(text) : OccursAt(pat, text, i)

\* Everything the call in progress had to match against.
Seen == cur.buf0 \o cur.rx

WaitOver(ops) == Idle /\ ncalls > 0 /\ cur.op \in ops

\* C1: a waitfor or expect that returns, returns the index of the first
\* pattern of its list, in list order, that occurs anywhere in the data it
\* has seen, wherever in the data later patterns occur; and it does return,
\* at once, when a pattern occurs in the buffer it is called on.
C1_FirstInListOrder ==
    WaitOver({"waitfor", "expect"}) =>
        /\ Returned =>
               /\ ret.idx + 1 \in 1..Len(cur.pats)
               /\ Occurs(cur.pats[ret.idx + 1], Seen)
               /\ \A j \in 1..ret.idx : ~Occurs(cur.pats[j], Seen)
        /\ (\E j \in 1..Len(cur.pats) : Occurs(cur.pats[j], cur.buf0)) =>
               Returned /\ cur.rx = <<>>

\* C1 witness: an expect called on a buffer that is not empty returned the
\* first pattern of its list although the second occurs earlier in the data.
C1_Witness ==
    /\ WaitOver({"expect"})
    /\ Returned
    /\ cur.buf0 # <<>>
    /\ ret.idx = 0
    /\ \E i \in 1..(ret.m.start - 1) : OccursAt(cur.pats[2], Seen, i)

\* C2: waitfor only ever appends what is received to the buffer; an expect
\* that succeeds leaves exactly the data after the end of the winning match
\* (the leftmost occurrence of the winning pattern); an expect that has not
\* succeeded, or has failed, has removed nothing.
C2_BufferFrame ==
    /\ (ncalls > 0 /\ cur.op = "waitfor") => buffer = Seen
    /\ (ncalls > 0 /\ cur.op = "expect" /\ ~Returned) => buffer = Seen
    /\ (WaitOver({"expect"}) /\ Returned) =>
           /\ ret.m.start >= 1
           /\ ret.m.end = ret.m.start + Len(cur.pats[ret.idx + 1].toks) - 1
           /\ OccursAt(cur.pats[ret.idx + 1], Seen, ret.m.start)
           /\ \A i \in 1..(ret.m.start - 1) :
                  ~OccursAt(cur.pats[ret.idx + 1], Seen, i)
           /\ buffer = SubSeq(Seen, ret.m.end + 1, Len(Seen))

\* C2 witness: an expect called on a buffer that is not empty received more
\* data, succeeded, and left data after its match in the buffer.
C2_Witness ==
    /\ WaitOver({"expect"})
    /\ Returned
    /\ cur.buf0 # <<>>
    /\ cur.rx # <<>>
    /\ buffer # <<>>

\* The number of occurrences of patterns of the list in text.
Occurrences(pats, text) ==
    Cardinality({<<j, i>> \in (1..Len(pats)) \X (1..Len(text)) :
                     OccursAt(pats[j], text, i)})

\* The public call before the current one.
Before == done[Len(done)]

Again(op) ==
    /\ Idle
    /\ ncalls >= 2
    /\ cur.op = op
    /\ Before.op = op
    /\ Before.pats = cur.pats
    /\ Before.ret.kind = "ok"
    /\ cur.rx = <<>>

\* C3: a waitfor repeated with no new data returns the same index and match
\* as the first; an expect repeated with no new data (and the transport
\* still open), after a first expect succeeded on data that held exactly one
\* match of the list, fails with TimeoutException.
C3_Idempotence ==
    /\ Again("waitfor") => ret = Before.ret
    /\ (/\ Again("expect")
        /\ Occurrences(cur.pats, Before.buf0 \o Before.rx) = 1
        /\ ~eof) => Raised("TimeoutException")

\* C3 witness: the second of two expects of the same list timed out, the
\* first having consumed the only match.
C3_Witness ==
    /\ Again("expect")
    /\ Occurrences(cur.pats, Before.buf0 \o Before.rx) = 1
    /\ Raised("TimeoutException")

-----------------------------------------------------------------------------
(* Properties of the driver replacement. *)

Retriers == {"waitfor", "expect", "_app_authenticate"}

\* C4: a DriverReplacedException is only ever held by waitfor, by expect or
\* by the prompt race, each at its wait; the next step of each is to start
\* that wait again; so no public call ends with it.
C4_NeverSurfaces ==
    /\ [](Raised("DriverReplacedException") =>
              /\ ~Idle
              /\ Top.fn \in Retriers
              /\ Top.pc = "wait")
    /\ [][Raised("DriverReplacedException") =>
              /\ ret' = NoRet
              /\ Len(stack') >= Depth
              /\ stack'[Depth].fn = Top.fn]_vars

\* C4 witness: a login during which the driver was replaced has returned.
C4_Witness ==
    /\ Idle
    /\ cur.op = "login"
    /\ cur.swaps > 0
    /\ Returned

\* The engine waits for the prompt race.
RaceWaits ==
    /\ At("_domatch", "eval")
    /\ Depth >= 2
    /\ stack[Depth - 1].fn = "_app_authenticate"

\* C5: whenever the engine evaluates the patterns of the prompt race, they
\* are the five category lists of the driver that is active now, and the
\* category a match is dispatched on is read from the map of that driver.
C5_RaceRebuilt ==
    /\ RaceWaits =>
           /\ Top.pats = prompt_list(prompt_map)
           /\ stack[Depth - 1].map = prompt_map
    /\ (At("_app_authenticate", "wait") /\ Returned) =>
           /\ Top.map = prompt_map
           /\ MatchedSection = prompt_map[ret.idx + 1].section

\* C5 witness: a race that was restarted by a driver change dispatches on a
\* CLI prompt that only the new driver has.
C5_Witness ==
    /\ At("_app_authenticate", "wait")
    /\ Returned
    /\ Top.retry
    /\ MatchedSection = "cli"
    /\ MatchedPrompt = Lit(<<"#">>)

\* C6: from the chunk on which the driver is replaced until more data or a
\* match, through the abort and in the restarted wait, the buffer is the
\* buffer before the chunk followed by the chunk, each once and in order.
C6_Retained == snap.set => buffer = snap.before \o snap.chunk

\* C6 witness: a restarted expect waits with data from before the chunk
\* that replaced the driver in its buffer.
C6_Witness ==
    /\ At("_domatch", "eval")
    /\ Top.retry
    /\ Top.flush
    /\ snap.set
    /\ snap.before # <<>>
    /\ buffer # <<>>

\* The engine waits for the expect of expect_prompt.
PromptWaits ==
    /\ At("_domatch", "eval")
    /\ Depth >= 3
    /\ stack[Depth - 1].fn = "expect"
    /\ stack[Depth - 2].fn = "expect_prompt"

\* C7: whenever the engine evaluates the patterns of the wait of
\* expect_prompt, they are the CLI prompts of the driver that is active now.
C7_PromptFresh == PromptWaits => Top.pats = get_prompt

-----------------------------------------------------------------------------
(* Properties of login. *)

\* The steps of login(account, app_account, flush), from the arguments of
\* the call.
LoginPlan(call) ==
    LET app_account == IF call.app = NoAccount THEN call.acct ELSE call.app
    IN  <<Step("authenticate", call.acct, FALSE),
          Step("app_authenticate", app_account, FALSE),
          Step("auto_app_authorize", app_account, call.flush)>>

\* The number of steps login has started when it is at pc.
StepNo(pc) ==
    CASE pc = "start" -> 0
      [] pc = "authenticate" -> 1
      [] pc = "app_authenticate" -> 2
      [] pc = "auto_app_authorize" -> 3

LoginGiven == cur.op = "login" /\ cur.acct # NoAccount

\* C8: the steps login starts are, in order, the beginning of
\* authenticate(account, False), app_authenticate(app_account, False),
\* auto_app_authorize(app_account, flush), app_account being account when
\* left out; all three when login returns; each is started by login itself,
\* after the one before returned, as the call the step names; and an
\* exception that reaches login leaves it at once, unchanged, with no
\* further step.
C8_LoginSteps ==
    /\ [](LoginGiven =>
              /\ Len(log) <= 3
              /\ log = SubSeq(LoginPlan(cur), 1, Len(log))
              /\ ~Idle => Len(log) = StepNo(stack[1].pc)
              /\ (Idle /\ Returned) => log = LoginPlan(cur))
    /\ [][(LoginGiven /\ Len(log') > Len(log)) =>
              /\ Depth = 1
              /\ ret.kind # "exc"
              /\ Len(stack') = 2
              /\ Step(stack'[2].fn, stack'[2].acct, stack'[2].flush)
                     = log'[Len(log')]]_vars
    /\ [][(LoginGiven /\ Depth = 1 /\ ret.kind = "exc") =>
              /\ stack' = <<>>
              /\ ret' = ret
              /\ log' = log]_vars

\* C8 witness: a login given two different accounts and flush has returned
\* after its three steps.
C8_Witness ==
    /\ Idle
    /\ LoginGiven
    /\ Returned
    /\ cur.flush
    /\ cur.app \notin {NoAccount, cur.acct}
    /\ Len(log) = 3

\* The record of the i-th public call of the session, once it is over.
CallNo(i) == IF i = ncalls THEN Last ELSE done[i]

EnableLine == Line("enable")

\* The authorization procedure of the driver sent nothing.
NoEnable == \A i \in 1..Len(sent) : sent[i] # EnableLine

Matchable(text) == \E i \in 1..Len(get_prompt) : Occurs(get_prompt[i], text)

\* The session began with a login that returned.
LoggedIn ==
    /\ Idle
    /\ ncalls >= 1
    /\ CallNo(1).op = "login"
    /\ CallNo(1).ret.kind = "ok"

\* C9: after a login that returned, on the device that only shows its CLI
\* prompt and with a driver that authorizes by doing nothing, nothing was
\* sent, the buffer login left holds the CLI prompt once, the expect_prompt
\* that follows returns and the one after that, without new data, fails.
C9_NoAppLogin ==
    (LoggedIn /\ device = "nologin" /\ NoEnable) =>
        /\ sent = <<>>
        /\ Occurrences(get_prompt, CallNo(1).buf1) = 1
        /\ ncalls >= 2 => CallNo(2).ret.kind = "ok"
        /\ (ncalls >= 3 /\ CallNo(3).rx = <<>>) => CallNo(3).ret.kind = "exc"

\* C9 witness: login with flush returned after a banner and the prompt, the
\* first expect_prompt returned and the second timed out.
C9_Witness ==
    /\ LoggedIn
    /\ device = "nologin"
    /\ NoEnable
    /\ ncalls = 3
    /\ CallNo(1).flush
    /\ Len(CallNo(1).rx) = 2
    /\ CallNo(2).ret.kind = "ok"
    /\ Raised("TimeoutException")

\* The account login uses at the application level.
AppAccount(call) == IF call.app = NoAccount THEN call.acct ELSE call.app

\* What a session with the device that asks for a name, then for a
\* password, has sent so far: the name, the password, then only the
\* command of the authorization procedure.
SentInOrder ==
    \A i \in 1..Len(sent) :
        sent[i] = CASE i = 1 -> Line(AppAccount(CallNo(1)).name)
                    [] i = 2 -> Line(AppAccount(CallNo(1)).password)
                    [] OTHER -> EnableLine

LoginDevice == device \in {"login:user", "login:password", "login:shell"}

-----------------------------------------------------------------------------
(* Properties of the steps of the application level. *)

\* A call of the operation op, with flush as given, is over and returned.
StepOver(op, flush) ==
    /\ Idle
    /\ ncalls > 0
    /\ cur.op = op
    /\ cur.flush = flush
    /\ Returned

\* The text shows a CLI prompt of the driver d and no prompt of any of the
\* other four categories.
OnlyCli(text, d) ==
    /\ \E i \in 1..Len(prompt_re(d)) : Occurs(prompt_re(d)[i], text)
    /\ \A c \in {"f", "u", "k", "p"}, i \in 1..Len(text) : text[i] # c

OnLeftover ==
    /\ ncalls >= 2
    /\ cur.op = "app_authorize"
    /\ Before.op = "app_authenticate"
    /\ ~Before.flush
    /\ Before.ret.kind = "ok"
    /\ OnlyCli(cur.buf0, cur.driver)
    /\ Occurrences(prompt_re(cur.driver), cur.buf0) = 1

\* C12: the race of an app_authorize called on the CLI prompt left by
\* app_authenticate(flush=False) is not ended by that prompt: it is ended
\* by a match in data that app_authorize itself has received.
C12_LeftoverDiscarded ==
    (OnLeftover /\ At("_app_authenticate", "wait") /\ Returned) =>
        cur.rx # <<>>

\* The account the current call works with: its argument, or else the
\* account remembered when it began.
CallAccountUsed == IF cur.acct = NoAccount THEN cur.last ELSE cur.acct

\* The password the current call is to answer a password prompt with.
PasswordDue ==
    IF cur.op = "app_authorize" /\ CallAccountUsed.password2 # None
    THEN CallAccountUsed.password2
    ELSE CallAccountUsed.password

\* C13: what the race sends in answer to a password prompt is, under
\* app_authorize, the authorization password of the account when it has one
\* and its password otherwise, and under app_authenticate its password,
\* followed by a carriage return; every item the call has sent is that
\* answer or the name of the account.
C13_PasswordSent ==
    /\ [](cur.op \in {"app_authenticate", "app_authorize"} =>
              \A i \in (cur.nsent + 1)..Len(sent) :
                  sent[i] \in {Line(CallAccountUsed.name), Line(PasswordDue)})
    /\ [][(/\ cur.op \in {"app_authenticate", "app_authorize"}
           /\ At("_app_authenticate", "password")
           /\ Returned) => sent' = Append(sent, Line(PasswordDue))]_vars

\* C13 witness: app_authorize, given the account that has an authorization
\* password, has answered a password prompt with it and returned.
C13_Witness ==
    /\ StepOver("app_authorize", FALSE)
    /\ cur.acct = Account2
    /\ Len(sent) = cur.nsent + 2
    /\ sent[Len(sent)] = Line(Account2.password2)

-----------------------------------------------------------------------------
(* Properties of authenticate. *)

\* The login at the protocol level that is due for the account.
ProtocolLoginDue(account) ==
    IF account.key # None
    THEN [method |-> "key", user |-> account.name, password |-> None,
          key |-> account.key]
    ELSE [method |-> "password", user |-> account.name,
          password |-> account.password, key |-> None]

OnlyAuthenticate == \A i \in 1..Depth : stack[i].fn = "authenticate"

\* C14: an authenticate that has got past its account has made exactly one
\* login at the protocol level, by key when the account has a key and by
\* password when it has none; and when flush is false it calls nothing that
\* waits, receives nothing and leaves the buffer as it was.
C14_KeyOrPassword ==
    (ncalls > 0 /\ cur.op = "authenticate") =>
        /\ Len(cur.proto) <= 1
        /\ \A i \in 1..Len(cur.proto) :
               cur.proto[i] = ProtocolLoginDue(CallAccountUsed)
        /\ (Idle /\ Returned) => Len(cur.proto) = 1
        /\ ~cur.flush =>
               /\ OnlyAuthenticate
               /\ cur.rx = <<>>
               /\ buffer = cur.buf0

\* C14 witness: authenticate(flush=False), given the account that has a
\* key, has returned after a login by key.
C14_Witness ==
    /\ StepOver("authenticate", FALSE)
    /\ cur.acct = Account2
    /\ cur.proto = <<protocol_authenticate_by_key(Account2.name,
                                                  Account2.key)>>

\* A call of one of the three operations that set a flag has raised.
StepRaised(ops) ==
    /\ Idle
    /\ ncalls > 0
    /\ cur.op \in ops
    /\ ret.kind = "exc"

\* C15: when authenticate, app_authenticate or app_authorize has raised,
\* the three flags have the values they had when it was called.
C15_FlagsKept ==
    StepRaised({"authenticate", "app_authenticate", "app_authorize"}) =>
        flags = cur.flags

-----------------------------------------------------------------------------
(* Properties of the prompt race. *)

\* The wait of the race has returned a match, not yet dispatched on.
RaceMatched == At("_app_authenticate", "wait") /\ Returned

\* The patterns of a section of the race, from the accessors.
SectionPrompts(section) ==
    CASE section = "login-error" -> get_login_error_prompt
      [] section = "username" -> get_username_prompt
      [] section = "skey" -> <<_skey_re>>
      [] section = "password" -> get_password_prompt
      [] section = "cli" -> get_prompt

SectionOrder == <<"login-error", "username", "skey", "password", "cli">>

\* A pattern of the section matches the text.
Shown(section, text) ==
    \E i \in 1..Len(SectionPrompts(section)) :
        Matches(SectionPrompts(section)[i], text)

\* A login-error pattern occurs in the text.
LoginErrorShown(text) ==
    \E i \in 1..Len(get_login_error_prompt) :
        Occurs(get_login_error_prompt[i], text)

\* C16: the section the race dispatches on is the first, in the order
\* login-error, username, skey, password, cli, that has a pattern matching
\* the buffer; so when a login-error pattern occurs anywhere in the buffer
\* the section is login-error, whatever else the buffer shows, and the next
\* step leaves the race with LoginFailure and sends nothing.
C16_LoginErrorFirst ==
    /\ [](RaceMatched =>
              /\ \E k \in 1..Len(SectionOrder) :
                     /\ MatchedSection = SectionOrder[k]
                     /\ Shown(SectionOrder[k], buffer)
                     /\ \A j \in 1..(k - 1) : ~Shown(SectionOrder[j], buffer)
              /\ LoginErrorShown(buffer) => MatchedSection = "login-error")
    /\ [][(RaceMatched /\ LoginErrorShown(buffer)) =>
              /\ stack' = Pop
              /\ ret' = Exc("LoginFailure")
              /\ sent' = sent]_vars

\* C16 witness: the race dispatches on a login error that stands in the
\* buffer behind a username, password or CLI prompt.
C16_Witness ==
    /\ RaceMatched
    /\ MatchedSection = "login-error"
    /\ \E i \in 1..(ret.m.start - 1) : buffer[i] \in {"u", "p", ">"}

OtpDevice == device \in {"otp:user", "otp:challenge", "otp:shell"}

\* The text holds the token c.
Holds(text, c) == \E i \in 1..Len(text) : text[i] = c

\* The race of the current call is at pc, the expect before pc having
\* returned.
RaceAt(pc) == At("_app_authenticate", pc) /\ Returned

\* The answer that is due to the last challenge: the value computed from
\* the password of the race and the seed and sequence number of the event.
PhraseDue(password) ==
    [password |-> password, seed |-> cur.otp[Len(cur.otp)].seed,
     seq |-> cur.otp[Len(cur.otp)].seq]

\* C17: on the device that sends one challenge and then a password prompt,
\* however its output is split: when the challenge has been consumed (it
\* is no longer in the buffer), the next step emits the event with the
\* sequence number and the seed of the match and goes on to consume a
\* password prompt; when that prompt has been consumed, the next step sends
\* the value computed from the password, that seed and that number, with a
\* carriage return; and the password itself is never sent.
C17_Challenge ==
    /\ [](OtpDevice =>
              /\ RaceAt("skey") => ~Holds(buffer, "k")
              /\ RaceAt("phrase") =>
                     /\ ~Holds(buffer, "p")
                     /\ Len(cur.otp) = 1
              /\ \A i \in 1..Len(sent) :
                     sent[i] # Line(AppAccount(CallNo(1)).password))
    /\ [][(OtpDevice /\ RaceAt("skey")) =>
              /\ cur'.otp = Append(cur.otp, [seq |-> 99, seed |-> Top.m.seed])
              /\ Top.m.seed \in {<<"s">>, <<"s", "s">>}
              /\ sent' = sent
              /\ Len(stack') = Depth + 1
              /\ stack'[Depth + 1].fn = "expect"
              /\ stack'[Depth + 1].pats = get_password_prompt]_vars
    /\ [][(OtpDevice /\ RaceAt("phrase")) =>
              sent' = Append(sent,
                             PhraseLine(PhraseDue(
                                 AppAccount(CallNo(1)).password)))]_vars

\* C17 witness: a login on that device has returned, having answered the
\* challenge with the value computed from its whole seed.
C17_Witness ==
    /\ LoggedIn
    /\ device = "otp:shell"
    /\ cur.otp = <<[seq |-> 99, seed |-> <<"s", "s">>]>>
    /\ Len(sent) >= 2
    /\ sent[2] = PhraseLine([password |-> AppAccount(cur).password,
                             seed |-> <<"s", "s">>, seq |-> 99])

-----------------------------------------------------------------------------
(* Properties of the cancellation. *)

\* A chunk has just been received on which a listener of the data-received
\* event called cancel_expect(), the driver staying as it was.
CancelRequested ==
    /\ At("_domatch", "check")
    /\ cancel
    /\ ~driver_replaced

Cancelled == Raised("ExpectCancelledException")

\* C18: a cancellation requested on a chunk that did not replace the driver
\* ends the wait with ExpectCancelledException before any pattern is tried
\* on the chunk, the buffer keeping the chunk; no frame retries or replaces
\* the exception, the prompt race included: it leaves every frame as it
\* is, with nothing consumed or sent, until the public call ends with it;
\* and a waitfor or expect that ended with it has in its buffer all it
\* started with and all it received.
C18_Cancelled ==
    /\ [][CancelRequested =>
              /\ stack' = Pop
              /\ ret' = Exc("ExpectCancelledException")
              /\ buffer' = buffer]_vars
    /\ [][(~Idle /\ Cancelled) =>
              /\ stack' = Pop
              /\ ret' = ret
              /\ buffer' = buffer
              /\ sent' = sent]_vars
    /\ [](Cancelled =>
              /\ cur.rx # <<>>
              /\ cur.op \in {"waitfor", "expect"} => buffer = Seen)

\* C18 witness: an expect has ended with ExpectCancelledException on the
\* chunk that brought a match of its patterns, and the match is in the
\* buffer.
C18_Witness ==
    /\ WaitOver({"expect"})
    /\ Cancelled
    /\ \E j \in 1..Len(cur.pats) : Occurs(cur.pats[j], buffer)

-----------------------------------------------------------------------------
(* Properties of execute. *)

\* A line of the text other than the first begins with a match of an error
\* pattern.
ErrorLine(text) ==
    \E i \in 2..Len(text), j \in 1..Len(get_error_prompt) :
        /\ text[i - 1] = "n"
        /\ OccursAt(get_error_prompt[j], text, i)

\* C19: an execute whose response, consumed through the CLI prompt, has a
\* line other than the first that matches an error pattern does not
\* return: it fails with InvalidCommandException.
C19_ErrorDetected ==
    (Idle /\ ncalls > 0 /\ cur.op = "execute" /\ Returned) =>
        ~ErrorLine(response.val)

-----------------------------------------------------------------------------
(* Properties of the overrides. *)

\* What the getter of the category returns.
Getter(c) ==
    CASE c = "user" -> get_username_prompt
      [] c = "password" -> get_password_prompt
      [] c = "prompt" -> get_prompt
      [] c = "error" -> get_error_prompt
      [] c = "login_error" -> get_login_error_prompt

\* The patterns the driver d has for the category.
DriverDefault(c, d) ==
    CASE c = "user" -> user_re(d)
      [] c = "password" -> password_re(d)
      [] c = "prompt" -> prompt_re(d)
      [] c = "error" -> error_re(d)
      [] c = "login_error" -> login_error_re(d)

\* C20: the getter of each category returns the override when the override
\* is anything but None, and the patterns of the active driver when it is
\* None.
C20_OverrideWins ==
    \A c \in Categories :
        Getter(c) = IF manual_re[c].isnone
                    THEN DriverDefault(c, get_driver)
                    ELSE manual_re[c].val

-----------------------------------------------------------------------------
(* Properties of calls made without an account. *)

\* The call under way, or the one that ended last, was given no account and
\* found none remembered.
NoAccountAtAll ==
    /\ ncalls > 0
    /\ cur.op \in AccountCalls \cup {"login"}
    /\ cur.acct = NoAccount
    /\ cur.last = NoAccount

\* C21: login, authenticate, app_authenticate, app_authorize and
\* auto_app_authorize, called without an account when none is remembered,
\* raise TypeError; nothing is sent, received or waited for, and the flags,
\* last_account and the buffer are as they were.
C21_MissingAccount ==
    NoAccountAtAll =>
        /\ Len(sent) = cur.nsent
        /\ cur.rx = <<>>
        /\ \A i \in 1..Depth : stack[i].fn = cur.op
        /\ flags = cur.flags
        /\ last_account = cur.last
        /\ buffer = cur.buf0
        /\ Idle => Raised("TypeError")

C21_Witness ==
    /\ NoAccountAtAll
    /\ Idle
    /\ cur.op = "login"
    /\ cur.app # NoAccount
    /\ Raised("TypeError")

-----------------------------------------------------------------------------
(* Properties of the failures of the prompt race. *)

\* The failures of a wait that are not a driver replacement.
RaceFailures == {"TimeoutException", "ExpectCancelledException", "EOFError"}

\* The wait of the race has raised exc.
RaceWaitRaised(exc) == At("_app_authenticate", "wait") /\ Raised(exc)

\* The race ends with the exception its wait raised, nothing is sent and no
\* flag is set.
RaceGivesUp(exc) ==
    /\ stack' = Pop
    /\ ret'.kind = "exc"
    /\ ret'.exc = exc
    /\ sent' = sent
    /\ flags' = flags

\* The new TimeoutException carries the buffered text, and response is the
\* empty string if it was unset.
CarriesBuffer ==
    /\ ~response'.isnone
    /\ response.isnone => response' = Some(<<>>)
    /\ ret'.msg = Some(buffer)

\* C22: a timeout of the wait of the race ends the race with a
\* TimeoutException that carries the buffered text, response being the
\* empty string if it was unset; a cancellation and the end of the stream
\* leave the race unchanged; nothing more is sent, and the call that ran
\* the race does not set app_authenticated or app_authorized.
C22_NoFailureSwallowed ==
    /\ [][\A exc \in RaceFailures :
              RaceWaitRaised(exc) =>
                  /\ RaceGivesUp(exc)
                  /\ exc = "TimeoutException" => CarriesBuffer
                  /\ exc # "TimeoutException" => ret' = ret]_vars
    /\ [](StepRaised({"app_authenticate", "app_authorize"})
              /\ ret.exc \in RaceFailures =>
                  /\ app_authenticated = cur.flags[2]
                  /\ app_authorized = cur.flags[3])

-----------------------------------------------------------------------------
(* Termination of the prompt race. *)

\* The prompt race is running.
InRace == \E i \in 1..Depth : stack[i].fn = "_app_authenticate"

\* The engine is about to end an expect that the race made in one of its
\* branches.
RaceExpect ==
    /\ Depth >= 3
    /\ At("_domatch", "eval")
    /\ stack[Depth - 2].fn = "_app_authenticate"
    /\ stack[Depth - 2].pc \in {"username", "skey", "password"}

\* C23: every run of the prompt race ends when the device sends finitely
\* many chunks; an iteration that continues has consumed a prompt from the
\* buffer, or follows a driver replacement caused by a chunk just received.
C23_RaceEnds ==
    /\ InRace ~> ~InRace
    /\ [][/\ RaceExpect /\ ret'.kind = "ok" => Len(buffer') < Len(buffer)
          /\ RaceWaitRaised("DriverReplacedException") =>
                 snap.set /\ snap.chunk # <<>>]_vars

\* The race has gone round more than once and has ended.
C23_Witness ==
    /\ WaitOver({"app_authenticate", "app_authorize"})
    /\ Len(sent) >= cur.nsent + 2
    /\ cur.swaps > 0

-----------------------------------------------------------------------------
(* Properties of last_account. *)

\* A call that takes an account is over and has not failed for want of one.
AccountCallOver ==
    /\ Idle
    /\ ncalls > 0
    /\ cur.op \in AccountCalls \cup {"login"}
    /\ CallAccountUsed # NoAccount

\* The account the call used last: for login the account of the last step
\* it started, otherwise the account the call works with.
UsedLast ==
    IF cur.op = "login" /\ log # <<>> THEN log[Len(log)].acct
    ELSE CallAccountUsed

\* The account of the application level of a login call.
LoginAppAccount == IF cur.app = NoAccount THEN CallAccountUsed ELSE cur.app

-----------------------------------------------------------------------------
(* Properties of the flush at the end of the prompt race. *)

\* The engine is at work for the expect_prompt() that ends a race.
InFlush ==
    /\ Depth >= 4
    /\ Top.fn = "_domatch"
    /\ stack[Depth - 3].fn = "_app_authenticate"
    /\ stack[Depth - 3].pc = "flush"

\* C25: the CLI prompt that ends the race is the one an expect of the CLI
\* prompts would consume; the flush of app_authenticate(flush=True) and of
\* app_authorize(flush=True) finds it still in the buffer, so that it
\* never waits for data, and consumes it: when the
\* call returns, the buffer is what followed that prompt, one CLI prompt
\* fewer is in it than in the text the call has seen, and when the text
\* showed one CLI prompt, none is matchable any more.
C25_OnePromptConsumed ==
    /\ RaceMatched /\ MatchedSection = "cli" =>
           ret.m = Search(get_prompt[FirstIndex(get_prompt, buffer)], buffer)
    /\ InFlush =>
           /\ Top.pats = get_prompt
           /\ AnyMatch(Top.pats, buffer)
    /\ \A op \in {"app_authenticate", "app_authorize"} :
           StepOver(op, TRUE) =>
               /\ Occurrences(get_prompt, buffer)
                      = Occurrences(get_prompt, Seen) - 1
               /\ Occurrences(get_prompt, Seen) = 1 => ~Matchable(buffer)

\* C25 witness: app_authorize(flush=True) has answered the prompts of a
\* device that then showed one CLI prompt, and has returned.
C25_Witness ==
    /\ StepOver("app_authorize", TRUE)
    /\ Len(sent) = cur.nsent + 2
    /\ Occurrences(get_prompt, Seen) = 1
    /\ buffer = <<>>

-----------------------------------------------------------------------------
(* Properties of set_driver and get_driver. *)

Pinned == manual_driver # None

\* The calls made so far during which data was received.
Receivers == {i \in 1..ncalls : CallNo(i).rx # <<>>}

\* The OS guessed from the chunk received last in the session.
LatestGuess ==
    IF Receivers = {} THEN "unknown"
    ELSE CallNo(CHOOSE i \in Receivers : \A j \in Receivers : j <= i).guess

\* A call of set_driver is over.
SetDriverOver == Idle /\ ncalls > 0 /\ cur.op = "set_driver"

\* C26: while a driver is pinned, get_driver returns it and no chunk
\* replaces the driver: driver_replaced is not set, no wait is cancelled for
\* a replacement and none ends with DriverReplacedException; the automatic
\* driver still follows the guess made from every chunk, so that after
\* set_driver(None) get_driver returns the driver of the latest guess.
C26_Pinned ==
    /\ [](Pinned =>
              /\ get_driver = manual_driver
              /\ ~driver_replaced
              /\ ~snap.set
              /\ ~Raised("DriverReplacedException")
              /\ cur.op # "set_driver" => cur.swaps = 0)
    /\ [](auto_driver = driver_map(LatestGuess))
    /\ [](SetDriverOver /\ cur.arg = NoArg =>
              /\ Returned
              /\ get_driver = driver_map(LatestGuess))

\* C26 witness: the generic driver was pinned, a wait received a chunk from
\* which IOS was guessed and went on undisturbed, and set_driver(None) has
\* made get_driver return the IOS driver.
C26_Witness ==
    /\ SetDriverOver
    /\ ncalls = 3
    /\ cur.arg = NoArg
    /\ CallNo(1).op = "set_driver"
    /\ CallNo(1).arg = StrArg("generic")
    /\ CallNo(2).op = "expect_prompt"
    /\ CallNo(2).guess = "ios"
    /\ CallNo(2).swaps = 0
    /\ CallNo(2).ret.kind = "ok"
    /\ get_driver = "ios"

\* The argument is the name of no driver, or neither None, a string nor a
\* driver.
Unsupported(arg) ==
    \/ arg.type = "str" /\ arg.val \notin driver_names
    \/ arg.type = "other"

\* The driver the argument stands for.
DriverOf(arg) == IF arg.type = "str" THEN driver_map(arg.val) ELSE arg.val

\* C29: set_driver with a name that is not registered, or with an argument
\* that is neither None, a string nor a driver, raises TypeError and leaves
\* manual_driver and the result of get_driver as they were; with a
\* registered name or a driver it pins that driver, and get_driver returns
\* it whatever OS is guessed afterwards.
C29_SetDriver ==
    /\ [][At("set_driver", "start") =>
              IF Unsupported(Top.arg)
              THEN /\ ret' = Exc("TypeError")
                   /\ manual_driver' = manual_driver
                   /\ get_driver' = get_driver
              ELSE /\ ret' = OkNone
                   /\ Top.arg # NoArg =>
                          /\ manual_driver' = DriverOf(Top.arg)
                          /\ get_driver' = DriverOf(Top.arg)]_vars
    /\ []((/\ ncalls >= 2
           /\ Before.op = "set_driver"
           /\ Before.ret.kind = "ok"
           /\ Before.arg # NoArg
           /\ cur.op = "expect_prompt") => get_driver = DriverOf(Before.arg))

\* C29 witness: the IOS driver was pinned by its name, a set_driver with a
\* name that is not registered has raised TypeError, and a wait after it
\* has received a chunk from which another OS was guessed.
C29_Witness ==
    /\ Idle
    /\ ncalls = 3
    /\ CallNo(1).op = "set_driver"
    /\ CallNo(1).arg = StrArg("ios")
    /\ CallNo(2).op = "set_driver"
    /\ CallNo(2).arg = StrArg("nosuch")
    /\ CallNo(2).ret = Exc("TypeError")
    /\ cur.op = "expect_prompt"
    /\ cur.guess = "unknown"
    /\ get_driver = "ios"

-----------------------------------------------------------------------------
(* Properties of a failed login. *)

AppSteps == {"app_authenticate", "app_authorize"}

\* The engine is at work for the wait of the race.
InRaceWait ==
    /\ Depth >= 2
    /\ Top.fn = "_domatch"
    /\ stack[Depth - 1].fn = "_app_authenticate"
    /\ stack[Depth - 1].pc = "wait"

\* The call before the current one was a step that failed with
\* LoginFailure.
AfterLoginFailure ==
    /\ ncalls >= 2
    /\ Before.op \in AppSteps
    /\ Before.ret = Exc("LoginFailure")
    /\ cur.op \in AppSteps

\* C27: the wait of the race that finds the login-error text leaves it in
\* the buffer, and so does the raise of LoginFailure; a further
\* app_authenticate or app_authorize on the session receives nothing, waits
\* for nothing, sends nothing, leaves the buffer as it is and fails with
\* LoginFailure again.
C27_LoginFailureKept ==
    /\ [][/\ InRaceWait /\ ret'.kind = "ok" => buffer' = buffer
          /\ RaceMatched /\ MatchedSection = "login-error" =>
                 /\ buffer' = buffer
                 /\ sent' = sent
                 /\ ret' = Exc("LoginFailure")]_vars
    /\ [](StepRaised(AppSteps) /\ Raised("LoginFailure") =>
              LoginErrorShown(buffer))
    /\ [](AfterLoginFailure =>
              /\ ~Waiting
              /\ cur.rx = <<>>
              /\ Len(sent) = cur.nsent
              /\ buffer = cur.buf0
              /\ Idle => Raised("LoginFailure"))

\* C27 witness: a step has answered the prompts of the device and failed
\* with LoginFailure, and a second step has failed with it again.
C27_Witness ==
    /\ AfterLoginFailure
    /\ Idle
    /\ Len(sent) = 2
    /\ Before.op = "app_authenticate"
    /\ cur.op = "app_authorize"
    /\ Raised("LoginFailure")

-----------------------------------------------------------------------------
(* Properties of the one-time-password challenge. *)

\* The challenge as the device sends it, and what _skey_re finds in it.
ChallengeText == Reply("otp:user", Line("n1"))

ChallengeSent == Search(_skey_re, ChallengeText)

\* C28: the sequence number and the seed the one-time-password function is
\* given, and the otp-requested event carries, are those of the whole
\* challenge of the device, however its text is split into chunks.
C28_WholeSeed ==
    OtpDevice =>
        /\ \A i \in 1..Len(cur.otp) :
               cur.otp[i] = otp_requested_event(int(ChallengeSent.seq),
                                                ChallengeSent.seed)
        /\ \A i \in 1..Len(sent) :
               sent[i].phrase # NoPhrase =>
                   /\ sent[i].phrase.seq = int(ChallengeSent.seq)
                   /\ sent[i].phrase.seed = ChallengeSent.seed

====
